---- MODULE Spec2Model ----
(***************************************************************************)
(* Mission Control (src/mission_control.py): the Launcher window resolves  *)
(* the user's entries into selection criteria and queries the catalog;     *)
(* GlobalInfoWindow classifies every returned pointing against the status  *)
(* service, summarises the set and launches the unprocessed pointings.     *)
(*                                                                         *)
(* Objects are functions from attribute names to values, so an attribute   *)
(* that has not been assigned yet is simply not in the DOMAIN.  Text typed *)
(* into an Entry is a sequence of one-character strings.  A tkinter        *)
(* callback that raises is reported by Tk and the main loop goes on; the   *)
(* variable exception keeps the name of what the last handler raised.      *)
(***************************************************************************)
EXTENDS Integers, Sequences, FiniteSets, TLC

VARIABLES
    check,            \* InputCheckBlock.val_checkbutton (the Tk variable "check")
    displayed,        \* which coordinate blocks coords_display has gridded
    entries,          \* the text in each Entry widget of the Launcher
    launcher,         \* attributes generate() has set on the Launcher
    pointing_query,   \* the query generate() sent to data/search_data
    pc,               \* "idle", or "classify" / "blocked" in GlobalInfoWindow.__init__
    window,           \* content of the Toplevel of the last generate()
    info,             \* attributes of the GlobalInfoWindow under construction or built
    ID_data,          \* the status response read by the last loop iteration
    popup,            \* the PopupWindow opened last: the attribute holding it, its text
    pointing,         \* the LaunchPointingWindow opened by select_id
    exception,        \* what the last handler raised, "none" if it returned
    requests,         \* the requests.get calls of the last generate() that are over
    inflight,         \* the requests.get calls that have not returned yet
    processes,        \* the commands handed to subprocess.Popen
    earlier,          \* history: the session the last Toplevel replaced
    reported          \* history: the launch reports of the last session

vars == <<check, displayed, entries, launcher, pointing_query, pc, window, info,
          ID_data, popup, pointing, exception, requests, inflight, processes,
          earlier, reported>>

(***************************************************************************)
(* Bounds of the model.                                                    *)
(***************************************************************************)
MaxPointings == 3     \* pointings in one catalog response
MaxMatches == 2       \* records in one status response
MaxReports == 3       \* launch reports kept of one session

(***************************************************************************)
(* float(str), as far as the entries of the model go: surrounding blanks   *)
(* are stripped, an optional sign, then one or more decimal digits.        *)
(* Anything else, the empty string included, raises ValueError.            *)
(***************************************************************************)
Digits == <<"0", "1", "2", "3", "4", "5", "6", "7", "8", "9">>

IsDigit(c) == \E d \in 1..10 : Digits[d] = c

DigitValue(c) == (CHOOSE d \in 1..10 : Digits[d] = c) - 1

RECURSIVE LStrip(_)
LStrip(s) == IF s # <<>> /\ Head(s) = " " THEN LStrip(Tail(s)) ELSE s

RECURSIVE RStrip(_)
RStrip(s) == IF s # <<>> /\ s[Len(s)] = " " THEN RStrip(SubSeq(s, 1, Len(s) - 1)) ELSE s

RECURSIVE DigitsValue(_, _)
DigitsValue(s, acc) ==
    IF s = <<>> THEN acc ELSE DigitsValue(Tail(s), 10 * acc + DigitValue(Head(s)))

float(s) ==
    LET t == RStrip(LStrip(s))
        signed == t # <<>> /\ Head(t) \in {"+", "-"}
        body == IF signed THEN Tail(t) ELSE t
    IN  IF body = <<>> \/ \E i \in 1..Len(body) : ~IsDigit(body[i])
        THEN [raised |-> "ValueError", value |-> 0]
        ELSE [raised |-> "none",
              value |-> IF signed /\ Head(t) = "-"
                        THEN 0 - DigitsValue(body, 0) ELSE DigitsValue(body, 0)]

(***************************************************************************)
(* try: x = float(x) / except ValueError: x = default.  The message that   *)
(* is printed for a non-blank invalid entry has no effect on the state.    *)
(***************************************************************************)
\* the conversion without its except clause
TryFloatUncaught(text, default) == float(text)

TryFloat(text, default) ==
    LET r == float(text)
    IN  IF r.raised = "ValueError" THEN [raised |-> "none", value |-> default] ELSE r

DefaultLowMJD == 45000
DefaultHighMJD == 63000
DefaultLowRA == 0
DefaultHighRA == 360
DefaultLowDec == 0 - 90
DefaultHighDec == 90
FullSkyRA == 180
FullSkyDec == 0
FullSkyRadius == 1000

(***************************************************************************)
(* What the user and the remote services can supply.  A profile In names   *)
(* the texts that may stand in each kind of Entry; a profile Rem names the *)
(* outcomes of each kind of request.  A request either returns a JSON list *)
(* (ok) or raises inside requests.get / .json().                           *)
(***************************************************************************)
Blank == <<>>

LowMJDTexts == {Blank, <<"4", "x">>, <<" ", "7", "0", "0", "0", "0">>}

HighMJDTexts == {Blank, <<"4", "x">>, <<"5", "0", "0", "0", "0">>}

CoordTexts == {Blank, <<"-">>, <<"-", "2", "0", " ">>}

RadiusTexts == {Blank, <<"r">>, <<"5">>}

SourceTexts == {"", "J0437-4715"}

TypedEntries ==
    [low_mjd |-> LowMJDTexts, high_mjd |-> HighMJDTexts,
     coord |-> CoordTexts, radius |-> RadiusTexts,
     source |-> {""}, survey |-> {"X"}]

BlankEntries ==
    [low_mjd |-> {Blank}, high_mjd |-> {Blank}, coord |-> {Blank}, radius |-> {Blank},
     source |-> {""}, survey |-> {"X"}]

\* every time range, with and without a source name, few coordinate texts
QueryEntries ==
    [low_mjd |-> LowMJDTexts, high_mjd |-> HighMJDTexts,
     coord |-> {Blank, <<"-", "2", "0", " ">>}, radius |-> {Blank, <<"5">>},
     source |-> SourceTexts, survey |-> {"X"}]

Returned(json) == [ok |-> TRUE, json |-> json]

RequestFailed == [ok |-> FALSE, json |-> <<>>]

Pointing(id) == [_id |-> id, start_date_time |-> 50000 + id]

\* n pointings in catalog order, starting at identifier k and wrapping around
Catalog(k, n) == [i \in 1..n |-> Pointing(((k + i - 2) % MaxPointings) + 1)]

Catalogs == {Catalog(k, n) : k \in {1, MaxPointings}, n \in 0..MaxPointings}

SurveyRecord == [survey |-> "X", f_low |-> 300, f_hi |-> 400]

StatusRecords == [completed : BOOLEAN]

StatusLists == UNION {[1..n -> StatusRecords] : n \in 0..MaxMatches}

Services ==
    [catalog |-> {Returned(c) : c \in Catalogs} \cup {RequestFailed},
     survey |-> {Returned(<<SurveyRecord>>), Returned(<<>>), RequestFailed},
     status |-> {Returned(l) : l \in StatusLists} \cup {RequestFailed}]

\* a catalog that holds nothing for the criteria
EmptyCatalog ==
    [catalog |-> {Returned(<<>>)},
     survey |-> {Returned(<<SurveyRecord>>)},
     status |-> {Returned(<<>>)}]

\* services that always answer, for a catalog of one or two pointings
Answering ==
    [catalog |-> {Returned(Catalog(1, 1)), Returned(Catalog(1, 2))},
     survey |-> {Returned(<<SurveyRecord>>)},
     status |-> {Returned(l) : l \in StatusLists}]

(***************************************************************************)
(* Launcher.generate, lines 239-326: the criteria.                         *)
(***************************************************************************)
MJDFields == {"low_mjd", "high_mjd"}
BoxFields == {"low_ra", "high_ra", "low_dec", "high_dec"}
DiskFields == {"center_ra", "center_dec", "radius"}

\* the Entry widgets of the Launcher: mjd_block, source_block, ras_range_block,
\* decs_range_block, center_ra_block, center_dec_block, radius_block
EntryTexts(In) ==
    [low_mjd : In.low_mjd, high_mjd : In.high_mjd, source : In.source,
     low_ra : In.coord, high_ra : In.coord, low_dec : In.coord, high_dec : In.coord,
     center_ra : In.coord, center_dec : In.coord, radius : In.radius]

Raised(rs) == IF \E i \in 1..Len(rs) : rs[i].raised # "none"
              THEN rs[CHOOSE i \in 1..Len(rs) : rs[i].raised # "none"
                                 /\ \A j \in 1..(i - 1) : rs[j].raised = "none"].raised
              ELSE "none"

ResolveMJD(e) ==
    LET low == TryFloat(e.low_mjd, DefaultLowMJD)
        high == TryFloat(e.high_mjd, DefaultHighMJD)
    IN  [raised |-> Raised(<<low, high>>),
         attrs |-> [low_mjd |-> low.value, high_mjd |-> high.value]]

ResolveBox(e) ==
    LET low_ra == TryFloat(e.low_ra, DefaultLowRA)
        high_ra == TryFloat(e.high_ra, DefaultHighRA)
        low_dec == TryFloat(e.low_dec, DefaultLowDec)
        high_dec == TryFloat(e.high_dec, DefaultHighDec)
    IN  [raised |-> Raised(<<low_ra, high_ra, low_dec, high_dec>>),
         attrs |-> [low_ra |-> low_ra.value, high_ra |-> high_ra.value,
                    low_dec |-> low_dec.value, high_dec |-> high_dec.value]]

\* an invalid radius widens the region like an invalid center does
ResolveDiskRadiusResets(e) ==
    LET center_ra == float(e.center_ra)
        center_dec == float(e.center_dec)
        radius == TryFloat(e.radius, FullSkyRadius)
        none == \/ center_ra.raised = "ValueError"
                \/ center_dec.raised = "ValueError"
                \/ float(e.radius).raised = "ValueError"
    IN  [raised |-> radius.raised,
         attrs |-> IF none
                   THEN [center_ra |-> FullSkyRA, center_dec |-> FullSkyDec,
                         radius |-> FullSkyRadius]
                   ELSE [center_ra |-> center_ra.value, center_dec |-> center_dec.value,
                         radius |-> radius.value]]

\* an invalid center resets the center and leaves the radius as resolved
ResolveDiskKeepsRadius(e) ==
    LET center_ra == float(e.center_ra)
        center_dec == float(e.center_dec)
        radius == TryFloat(e.radius, FullSkyRadius)
        none == center_ra.raised = "ValueError" \/ center_dec.raised = "ValueError"
    IN  [raised |-> radius.raised,
         attrs |-> IF none
                   THEN [center_ra |-> FullSkyRA, center_dec |-> FullSkyDec,
                         radius |-> radius.value]
                   ELSE [center_ra |-> center_ra.value, center_dec |-> center_dec.value,
                         radius |-> radius.value]]

\* center_ra / center_dec become None on ValueError; None on either one
\* resets all three attributes
ResolveDisk(e) ==
    LET center_ra == float(e.center_ra)
        center_dec == float(e.center_dec)
        radius == TryFloat(e.radius, FullSkyRadius)
        none == center_ra.raised = "ValueError" \/ center_dec.raised = "ValueError"
    IN  [raised |-> radius.raised,
         attrs |-> IF none
                   THEN [center_ra |-> FullSkyRA, center_dec |-> FullSkyDec,
                         radius |-> FullSkyRadius]
                   ELSE [center_ra |-> center_ra.value, center_dec |-> center_dec.value,
                         radius |-> radius.value]]

Criteria(e, chk) ==
    LET mjd == ResolveMJD(e)
        region == IF chk THEN ResolveBox(e) ELSE ResolveDisk(e)
    IN  [raised |-> Raised(<<mjd, region>>),
         attrs |-> [source |-> e.source] @@ mjd.attrs @@ region.attrs]

\* a query that filters by source name even when no source was entered
PointingQueryAlwaysSource(attrs, survey) ==
    [start_date_time |-> [gte |-> attrs.low_mjd, lte |-> attrs.high_mjd],
     survey |-> [eq |-> survey],
     source_name |-> [eq |-> attrs.source]]

PointingQuery(attrs, survey) ==
    IF attrs.source = ""
    THEN [start_date_time |-> [gte |-> attrs.low_mjd, lte |-> attrs.high_mjd],
          survey |-> [eq |-> survey]]
    ELSE [start_date_time |-> [gte |-> attrs.low_mjd, lte |-> attrs.high_mjd],
          survey |-> [eq |-> survey], source_name |-> [eq |-> attrs.source]]

(***************************************************************************)
(* InputCheckBlock: two Checkbuttons on the one variable.  Invoking a Tk   *)
(* checkbutton deselects it when the variable holds its onvalue and        *)
(* selects it otherwise; coords_display is the command of both.            *)
(***************************************************************************)
range_checkbutton == [onvalue |-> TRUE, offvalue |-> FALSE]

\* the Disk checkbutton configured like the Range one
IntervalLikeRange == [onvalue |-> TRUE, offvalue |-> FALSE]

interval_checkbutton == [onvalue |-> FALSE, offvalue |-> TRUE]

Selected(button, value) == value = button.onvalue

Invoke(button, value) ==
    IF Selected(button, value) THEN button.offvalue ELSE button.onvalue

coords_display(value) == IF value = TRUE THEN "range" ELSE "disk"

ClickRange ==
    /\ pc = "idle"
    /\ check' = Invoke(range_checkbutton, check)
    /\ displayed' = coords_display(check')
    /\ exception' = "none"
    /\ UNCHANGED <<entries, launcher, pointing_query, pc, window, info, ID_data,
                   popup, pointing, requests, inflight, processes, earlier, reported>>

ClickDisk ==
    /\ pc = "idle"
    /\ check' = Invoke(interval_checkbutton, check)
    /\ displayed' = coords_display(check')
    /\ exception' = "none"
    /\ UNCHANGED <<entries, launcher, pointing_query, pc, window, info, ID_data,
                   popup, pointing, requests, inflight, processes, earlier, reported>>

(***************************************************************************)
(* GlobalInfoWindow.__init__                                               *)
(***************************************************************************)
NoAttributes == <<>>

Has(object, name) == name \in DOMAIN object

Min(S) == CHOOSE x \in S : \A y \in S : x <= y

Max(S) == CHOOSE x \in S : \A y \in S : x >= y

\* lines 520-530: everything assigned before np.min(self.MJDs) is called
InitIDs(survey, pointing_data, survey_data) ==
    [survey |-> survey,
     pointing_data |-> pointing_data,
     survey_data |-> survey_data,
     IDs |-> [i \in 1..Len(pointing_data) |-> pointing_data[i]._id],
     MJDs |-> [i \in 1..Len(pointing_data) |-> pointing_data[i].start_date_time],
     N |-> Len(pointing_data)]

\* lines 520-532: everything assigned before survey_data[0] is read
InitPointings(survey, pointing_data, survey_data) ==
    [MJD_min |-> Min({pointing_data[i].start_date_time : i \in 1..Len(pointing_data)}),
     MJD_max |-> Max({pointing_data[i].start_date_time : i \in 1..Len(pointing_data)})]
        @@ InitIDs(survey, pointing_data, survey_data)

\* an indexing that yields a record without frequencies for an empty list
Item0OrNothing(list) ==
    IF Len(list) = 0
    THEN [raised |-> "none", value |-> [f_low |-> 0, f_hi |-> 0]]
    ELSE [raised |-> "none", value |-> list[1]]

\* list[0], lines 533-534: IndexError on an empty list
Item0(list) ==
    IF Len(list) = 0
    THEN [raised |-> "IndexError", value |-> <<>>]
    ELSE [raised |-> "none", value |-> list[1]]

\* lines 533-550
InitSurvey(survey_data) ==
    [freq_min |-> Item0(survey_data).value.f_low,
     freq_max |-> Item0(survey_data).value.f_hi,
     statuses |-> <<>>]

\* the status taken from the last record of the response
ClassifyLastRecord(response) ==
    IF response = <<>>
    THEN "Unprocessed"
    ELSE IF response[Len(response)].completed = TRUE THEN "Completed" ELSE "Active"

\* the status an earlier session gave to the identifier, when it gave one
ClassifyCached(response) ==
    LET ID == info.IDs[Len(info.statuses) + 1]
        cached == IF Has(earlier, "IDs")
                  THEN {i \in 1..Len(earlier.IDs) : earlier.IDs[i] = ID}
                  ELSE {}
    IN  IF cached # {}
        THEN earlier.statuses[CHOOSE i \in cached : TRUE]
        ELSE IF response = <<>>
        THEN "Unprocessed"
        ELSE IF response[1].completed = TRUE THEN "Completed" ELSE "Active"

\* lines 555-563: the status of one pointing from the response to its query
Classify(response) ==
    IF response = <<>>
    THEN "Unprocessed"
    ELSE IF response[1].completed = TRUE THEN "Completed" ELSE "Active"

Count(statuses, status) == Cardinality({i \in 1..Len(statuses) : statuses[i] = status})

\* round(num/den, 2) in hundredths, ties to even as "{:.2f}" rounds an exact tie
Hundredths(num, den) ==
    LET q == (100 * num) \div den
        r == (100 * num) % den
    IN  IF 2 * r > den \/ (2 * r = den /\ q % 2 = 1) THEN q + 1 ELSE q

\* "{:.2f}".format(num/den)
Format2f(num, den) ==
    LET h == Hundredths(num, den)
    IN  ToString(h \div 100) \o "." \o ToString((h % 100) \div 10) \o ToString(h % 10)

\* lines 597-600: "{} ({:.2f})%".format(count, count/N)
CountText(count, N) == ToString(count) \o " (" \o Format2f(count, N) \o ")%"

\* a box that lists an identifier unless its status is to be shown
RECURSIVE ListedOthers(_, _, _)
ListedOthers(IDs, statuses, statuses_to_show) ==
    IF IDs = <<>>
    THEN <<>>
    ELSE (IF Head(statuses) \notin statuses_to_show THEN <<Head(IDs)>> ELSE <<>>)
         \o ListedOthers(Tail(IDs), Tail(statuses), statuses_to_show)

\* InfoBox.__init__, lines 796-799: the identifiers listed in one box
RECURSIVE Listed(_, _, _)
Listed(IDs, statuses, statuses_to_show) ==
    IF IDs = <<>>
    THEN <<>>
    ELSE (IF Head(statuses) \in statuses_to_show THEN <<Head(IDs)>> ELSE <<>>)
         \o Listed(Tail(IDs), Tail(statuses), statuses_to_show)

\* N_active counting every pointing that is not completed
InitSummaryNotCompleted(self) ==
    [N_completed |-> Count(self.statuses, "Completed"),
     N_active |-> self.N - Count(self.statuses, "Completed"),
     processed_text |-> CountText(Count(self.statuses, "Completed"), self.N),
     active_text |-> CountText(self.N - Count(self.statuses, "Completed"), self.N),
     unprocessed_info_box |->
         Listed(self.IDs, self.statuses, {"Unprocessed", "Active", "Completed"}),
     current_jobs_info_box |-> Listed(self.IDs, self.statuses, {"Unprocessed"}),
     recent_jobs_info_box |-> Listed(self.IDs, self.statuses, {"Active"})]

\* lines 564-618
InitSummary(self) ==
    [N_completed |-> Count(self.statuses, "Completed"),
     N_active |-> Count(self.statuses, "Active"),
     processed_text |-> CountText(Count(self.statuses, "Completed"), self.N),
     active_text |-> CountText(Count(self.statuses, "Active"), self.N),
     unprocessed_info_box |->
         Listed(self.IDs, self.statuses, {"Unprocessed", "Active", "Completed"}),
     current_jobs_info_box |-> Listed(self.IDs, self.statuses, {"Unprocessed"}),
     recent_jobs_info_box |-> Listed(self.IDs, self.statuses, {"Active"})]

(***************************************************************************)
(* The remote calls.  Every call is requests.get(url, json=query,          *)
(* headers=...).json(), made by the one thread of the program.             *)
(***************************************************************************)
\* lines 328-329
PointingRequest(query) == [url |-> "data/search_data", json |-> query]

\* lines 331-334
SurveyRequest(survey) ==
    [url |-> "survey/search_data", json |-> [survey |-> [eq |-> survey]]]

\* lines 552-554
StatusRequest(ID) ==
    [url |-> "survey/search_data", json |-> [dataID |-> [eq |-> ID]]]

\* one entry of the log requests: the call and whether it returned
Logged(request, response) == [ok |-> response.ok] @@ request

\* a call that hands control back before the response is there
GetReturnsAtOnce == "classify"

\* requests.get blocks: the caller goes on when the response is there
GetBlocks == "blocked"

\* a test that lets an empty catalog response through
AnyPointings(pointing_data) == TRUE

\* line 338
HasPointings(pointing_data) == Len(pointing_data) # 0

(***************************************************************************)
(* Launcher.generate.  The handler blocks in every request; the action     *)
(* GenerateHandler runs it up to the first status query (or to its end     *)
(* when it never gets there), SendStatusQuery and ClassifyStep are one     *)
(* iteration of the loop of lines 551-563 (the call, and its return) and   *)
(* FinishInit is the rest of GlobalInfoWindow.__init__.  No other handler  *)
(* runs in between (pc).  window, info, popup and pointing follow the      *)
(* Toplevel of the last generate(); windows of earlier ones are left out   *)
(* of the state once a new Toplevel is created.                            *)
(***************************************************************************)
NoPopup == [window |-> "none", text |-> ""]

\* lines 328-342 and 520-550: the two requests of generate() and what it
\* does with the responses
Requests(survey, pointing_response, survey_response) ==
    LET pointing_data == pointing_response.json
        survey_data == survey_response.json
        pointing_request == Logged(PointingRequest(pointing_query'), pointing_response)
        survey_request == Logged(SurveyRequest(survey), survey_response)
    IN  IF ~pointing_response.ok
        THEN \* lines 328-329: requests.get(...).json() raised
             /\ requests' = <<pointing_request>>
             /\ exception' = "RequestException"
             /\ UNCHANGED <<pc, window, info, ID_data, popup, pointing>>
        ELSE /\ requests' = <<pointing_request, survey_request>>
             /\ IF ~survey_response.ok
                THEN \* lines 333-334: requests.get(...).json() raised
                     /\ exception' = "RequestException"
                     /\ UNCHANGED <<pc, window, info, ID_data, popup, pointing>>
                ELSE /\ ID_data' = <<>>
                     /\ pointing' = NoAttributes
                     /\ IF ~HasPointings(pointing_data)
                        THEN \* line 342
                             /\ window' = "PopupWindow"
                             /\ popup' = [window |-> "Launcher.no_pointings_popup",
                                          text |-> "No pointings found!"]
                             /\ info' = NoAttributes
                             /\ exception' = "none"
                             /\ pc' = "idle"
                        ELSE IF Len(pointing_data) = 0
                        THEN \* line 531: np.min of an empty array
                             /\ window' = "empty"
                             /\ popup' = NoPopup
                             /\ info' = InitIDs(survey, pointing_data, survey_data)
                             /\ exception' = "ValueError"
                             /\ pc' = "idle"
                        ELSE IF Item0(survey_data).raised # "none"
                        THEN \* line 533: survey_data[0]
                             /\ window' = "empty"
                             /\ popup' = NoPopup
                             /\ info' = InitPointings(survey, pointing_data, survey_data)
                             /\ exception' = Item0(survey_data).raised
                             /\ pc' = "idle"
                        ELSE /\ window' = "empty"
                             /\ popup' = NoPopup
                             /\ info' = InitSurvey(survey_data)
                                  @@ InitPointings(survey, pointing_data, survey_data)
                             /\ exception' = "none"
                             /\ pc' = "classify"

GenerateHandler(Rem) ==
    /\ pc = "idle"
    /\ \E survey \in {"X"} :
          LET criteria == Criteria(entries, check)
          IN  IF criteria.raised # "none"
              THEN /\ exception' = criteria.raised
                   /\ requests' = <<>>
                   /\ UNCHANGED <<launcher, pointing_query, pc, window, info,
                                  ID_data, popup, pointing>>
              ELSE /\ launcher' = ([chosen_survey |-> survey] @@ criteria.attrs)
                                      @@ launcher
                   /\ pointing_query' = PointingQuery(launcher', survey)
                   /\ \E pointing_response \in Rem.catalog,
                         survey_response \in Rem.survey :
                         Requests(survey, pointing_response, survey_response)
    /\ UNCHANGED <<check, displayed, entries, inflight, processes>>

\* a generate() that started a new Toplevel, seen from the step it takes
NewToplevel == exception' # "RequestException"

Generate(Rem) ==
    /\ GenerateHandler(Rem)
    /\ UNCHANGED <<earlier, reported>>

\* generate(), with the session its Toplevel replaces kept in earlier
GenerateNext(Rem) ==
    /\ GenerateHandler(Rem)
    /\ earlier' = IF NewToplevel /\ window = "GlobalInfoWindow"
                  THEN [IDs |-> info.IDs, statuses |-> info.statuses]
                  ELSE earlier
    /\ reported' = IF NewToplevel THEN <<>> ELSE reported

\* lines 552-554, the call
SendStatusQuery ==
    /\ pc = "classify"
    /\ Len(info.statuses) < Len(info.IDs)
    /\ inflight' = Append(inflight, StatusRequest(info.IDs[Len(info.statuses) + 1]))
    /\ pc' = GetBlocks
    /\ UNCHANGED <<check, displayed, entries, launcher, pointing_query, window, info,
                   ID_data, popup, pointing, exception, requests, processes,
                   earlier, reported>>

\* lines 553-563, from the return of the call
ClassifyStep(Rem) ==
    /\ pc = "blocked"
    /\ \E response \in Rem.status :
          /\ requests' = Append(requests, Logged(Head(inflight), response))
          /\ inflight' = Tail(inflight)
          /\ IF ~response.ok
             THEN \* requests.get(...).json() raised
                  /\ exception' = "RequestException"
                  /\ pc' = "idle"
                  /\ UNCHANGED <<info, ID_data>>
             ELSE /\ ID_data' = response.json
                  /\ info' = [statuses |-> Append(info.statuses, Classify(response.json))]
                                 @@ info
                  /\ pc' = "classify"
                  /\ UNCHANGED exception
    /\ UNCHANGED <<check, displayed, entries, launcher, pointing_query, window,
                   popup, pointing, processes, earlier, reported>>

\* ID_data is a local of __init__ and is gone when it returns
FinishInit ==
    /\ pc = "classify"
    /\ Len(info.statuses) = Len(info.IDs)
    /\ info' = InitSummary(info) @@ info
    /\ ID_data' = <<>>
    /\ window' = "GlobalInfoWindow"
    /\ pc' = "idle"
    /\ UNCHANGED <<check, displayed, entries, launcher, pointing_query,
                   popup, pointing, exception, requests, inflight, processes,
                   earlier, reported>>

(***************************************************************************)
(* GlobalInfoWindow.launch_all                                             *)
(***************************************************************************)
\* a loop that rejects the completed pointings only
RECURSIVE LaunchLoopCompletedOnly(_, _, _, _)
LaunchLoopCompletedOnly(statuses, i, num_bad_statuses, num_good_statuses) ==
    IF i > Len(statuses)
    THEN [num_bad_statuses |-> num_bad_statuses, num_good_statuses |-> num_good_statuses]
    ELSE IF statuses[i] = "Completed"
         THEN LaunchLoopCompletedOnly(statuses, i + 1, num_bad_statuses + 1,
                                      num_good_statuses)
         ELSE LaunchLoopCompletedOnly(statuses, i + 1, num_bad_statuses,
                                      num_good_statuses + 1)

RECURSIVE LaunchLoop(_, _, _, _)
LaunchLoop(statuses, i, num_bad_statuses, num_good_statuses) ==
    IF i > Len(statuses)
    THEN [num_bad_statuses |-> num_bad_statuses, num_good_statuses |-> num_good_statuses]
    ELSE IF statuses[i] # "Unprocessed"
         THEN LaunchLoop(statuses, i + 1, num_bad_statuses + 1, num_good_statuses)
         ELSE LaunchLoop(statuses, i + 1, num_bad_statuses, num_good_statuses + 1)

\* the two counts in the wrong places of the format string
LaunchMessageSwapped(num_good_statuses, num_bad_statuses) ==
    ToString(num_bad_statuses) \o " jobs launched; " \o ToString(num_good_statuses)
        \o " jobs cannot be processed."

LaunchMessage(num_good_statuses, num_bad_statuses) ==
    ToString(num_good_statuses) \o " jobs launched; " \o ToString(num_bad_statuses)
        \o " jobs cannot be processed."

\* a launch_all that takes the pointings it counted as launched off the session
launch_all_drops(self) ==
    LET kept == {"Active", "Completed"}
        left == [IDs |-> Listed(self.IDs, self.statuses, kept),
                 statuses |-> Listed(self.statuses, self.statuses, kept),
                 N |-> Len(Listed(self.IDs, self.statuses, kept))] @@ self
    IN  [self |-> left,
         started |-> <<>>,
         text |-> LaunchMessage(LaunchLoop(self.statuses, 1, 0, 0).num_good_statuses,
                                LaunchLoop(self.statuses, 1, 0, 0).num_bad_statuses)]

\* a launch_all that marks the pointings it counted as launched as active
launch_all_marks(self) ==
    [self |-> [statuses |-> [i \in 1..Len(self.statuses) |->
                                IF self.statuses[i] = "Unprocessed"
                                THEN "Active" ELSE self.statuses[i]]] @@ self,
     started |-> <<>>,
     text |-> LaunchMessage(LaunchLoop(self.statuses, 1, 0, 0).num_good_statuses,
                            LaunchLoop(self.statuses, 1, 0, 0).num_bad_statuses)]

\* lines 679-693: the object after the call, the processes the call started
\* (the Popen of lines 688-690 is a comment) and the text of its popup
launch_all(self) ==
    LET counted == LaunchLoop(self.statuses, 1, 0, 0)
    IN  [self |-> self,
         started |-> <<>>,
         text |-> LaunchMessage(counted.num_good_statuses, counted.num_bad_statuses)]

LaunchAllHandler ==
    /\ pc = "idle"
    /\ window = "GlobalInfoWindow"
    /\ info' = launch_all(info).self
    /\ processes' = processes \o launch_all(info).started
    /\ popup' = [window |-> "GlobalInfoWindow.launch_result_window",
                 text |-> launch_all(info).text]
    /\ exception' = "none"
    /\ UNCHANGED <<check, displayed, entries, launcher, pointing_query, pc, window,
                   ID_data, pointing, requests, inflight>>

LaunchAll ==
    /\ LaunchAllHandler
    /\ UNCHANGED <<earlier, reported>>

\* launch_all, with its report kept in reported
LaunchAllNext ==
    /\ Len(reported) < MaxReports
    /\ LaunchAllHandler
    /\ reported' = Append(reported, [by |-> "launch_all", ID |-> 0,
                                     text |-> popup'.text])
    /\ UNCHANGED earlier

(***************************************************************************)
(* GlobalInfoWindow.get_help, save_skymap_box and save_skymap.  The session *)
(* is built with show_skymap as the Launcher is constructed (line 168).    *)
(***************************************************************************)
GetHelp ==
    /\ pc = "idle"
    /\ window = "GlobalInfoWindow"
    /\ popup' = [window |-> "GlobalInfoWindow.get_help_window",
                 text |-> "Hey there! This program is a GUI for launching jobs for TPP."]
    /\ exception' = "none"
    /\ UNCHANGED <<check, displayed, entries, launcher, pointing_query, pc, window,
                   info, ID_data, pointing, requests, inflight, processes,
                   earlier, reported>>

SaveSkymapBox ==
    /\ pc = "idle"
    /\ window = "GlobalInfoWindow"
    /\ popup' = [window |-> "GlobalInfoWindow.save_skymap_popup", text |-> "File name:"]
    /\ exception' = "none"
    /\ UNCHANGED <<check, displayed, entries, launcher, pointing_query, pc, window,
                   info, ID_data, pointing, requests, inflight, processes,
                   earlier, reported>>

\* the figure goes to the named file and the popup is destroyed
SaveSkymap ==
    /\ pc = "idle"
    /\ popup.window = "GlobalInfoWindow.save_skymap_popup"
    /\ popup' = NoPopup
    /\ exception' = "none"
    /\ UNCHANGED <<check, displayed, entries, launcher, pointing_query, pc, window,
                   info, ID_data, pointing, requests, inflight, processes,
                   earlier, reported>>

(***************************************************************************)
(* InfoBox.select_id and LaunchPointingWindow.launch                       *)
(***************************************************************************)
\* list(self.IDs).index(ID)
Index(IDs, ID) == Min({i \in 1..Len(IDs) : IDs[i] = ID})

SelectID(ID) ==
    /\ pc = "idle"
    /\ window = "GlobalInfoWindow"
    /\ \E i \in 1..Len(info.unprocessed_info_box) : info.unprocessed_info_box[i] = ID
    /\ pointing' = [ID |-> ID,
                    MJD |-> info.MJDs[Index(info.IDs, ID)],
                    status |-> info.statuses[Index(info.IDs, ID)]]
    /\ exception' = "none"
    /\ UNCHANGED <<check, displayed, entries, launcher, pointing_query, pc, window,
                   info, ID_data, popup, requests, inflight, processes,
                   earlier, reported>>

\* a launch that turns away the completed pointings only
launch_unless_completed(self) ==
    IF self.status = "Completed"
    THEN [popup |-> [window |-> "LaunchPointingWindow.launch_warning_window",
                     text |-> "Warning! Pointing status is " \o self.status
                                  \o " and cannot be processed."],
          started |-> <<>>,
          self |-> self]
    ELSE [popup |-> [window |-> "LaunchPointingWindow.launch_result_window",
                     text |-> "Job launched!"],
          started |-> <<>>,
          self |-> NoAttributes]

\* lines 888-902: the popup, the processes the call started (the Popen of
\* lines 895-897 is a comment) and the window after the call (quit closes it)
launch(self) ==
    IF self.status # "Unprocessed"
    THEN [popup |-> [window |-> "LaunchPointingWindow.launch_warning_window",
                     text |-> "Warning! Pointing status is " \o self.status
                                  \o " and cannot be processed."],
          started |-> <<>>,
          self |-> self]
    ELSE [popup |-> [window |-> "LaunchPointingWindow.launch_result_window",
                     text |-> "Job launched!"],
          started |-> <<>>,
          self |-> NoAttributes]

LaunchHandler ==
    /\ pc = "idle"
    /\ Has(pointing, "ID")
    /\ popup' = launch(pointing).popup
    /\ processes' = processes \o launch(pointing).started
    /\ pointing' = launch(pointing).self
    /\ exception' = "none"
    /\ UNCHANGED <<check, displayed, entries, launcher, pointing_query, pc, window,
                   info, ID_data, requests, inflight>>

Launch ==
    /\ LaunchHandler
    /\ UNCHANGED <<earlier, reported>>

\* launch, with its report kept in reported
LaunchNext ==
    /\ Len(reported) < MaxReports
    /\ LaunchHandler
    /\ reported' = Append(reported, [by |-> "launch", ID |-> pointing.ID,
                                     text |-> popup'.text])
    /\ UNCHANGED earlier

(***************************************************************************)
(* Specifications.  Spec: the Launcher as constructed (blank entries, the  *)
(* Range box ticked) against every outcome of the remote services.         *)
(* SpecCriteria: any text in the coordinate entries and any clicks on the  *)
(* two checkbuttons, against a catalog that holds no pointing.  SpecQuery: *)
(* the same with a source name and fewer coordinate texts.  SpecSessions:  *)
(* one session after the other against services that always answer, with   *)
(* the session before the last and the launch reports of the last kept.    *)
(***************************************************************************)
InitWith(In) ==
    /\ check = TRUE
    /\ displayed = coords_display(TRUE)
    /\ entries \in EntryTexts(In)
    /\ launcher = NoAttributes
    /\ pointing_query = NoAttributes
    /\ pc = "idle"
    /\ window = "none"
    /\ info = NoAttributes
    /\ ID_data = <<>>
    /\ popup = NoPopup
    /\ pointing = NoAttributes
    /\ exception = "none"
    /\ requests = <<>>
    /\ inflight = <<>>
    /\ processes = <<>>
    /\ earlier = NoAttributes
    /\ reported = <<>>

Init == InitWith(BlankEntries)

Next ==
    \/ Generate(Services)
    \/ SendStatusQuery
    \/ ClassifyStep(Services)
    \/ FinishInit
    \/ LaunchAll
    \/ GetHelp
    \/ SaveSkymapBox
    \/ SaveSkymap
    \/ \E ID \in 1..MaxPointings : SelectID(ID)
    \/ Launch

Spec == Init /\ [][Next]_vars

InitCriteria == InitWith(TypedEntries)

NextCriteria ==
    \/ ClickRange
    \/ ClickDisk
    \/ Generate(EmptyCatalog)

SpecCriteria == InitCriteria /\ [][NextCriteria]_vars

InitQuery == InitWith(QueryEntries)

SpecQuery == InitQuery /\ [][NextCriteria]_vars

NextSessions ==
    \/ GenerateNext(Answering)
    \/ SendStatusQuery
    \/ ClassifyStep(Answering)
    \/ FinishInit
    \/ LaunchAllNext
    \/ \E ID \in 1..MaxPointings : SelectID(ID)
    \/ LaunchNext

SpecSessions == Init /\ [][NextSessions]_vars

(***************************************************************************)
(* Properties of launch_all and of the classification (under Spec).        *)
(***************************************************************************)
SessionBuilt == window = "GlobalInfoWindow"

LaunchAllReported == SessionBuilt /\ popup.window = "GlobalInfoWindow.launch_result_window"

Positions(status) == {i \in 1..Len(info.statuses) : info.statuses[i] = status}

Report(launched, rejected) ==
    ToString(launched) \o " jobs launched; " \o ToString(rejected)
        \o " jobs cannot be processed."

\* C1: Launch All on K pointings that are all Unprocessed reports launched=K and
\* rejected=0; on K pointings none of which is Unprocessed it reports launched=0
\* and rejected=K.
C1_AllOrNothing ==
    LaunchAllReported =>
        /\ (Positions("Unprocessed") = 1..info.N) => popup.text = Report(info.N, 0)
        /\ (Positions("Unprocessed") = {}) => popup.text = Report(0, info.N)

C1_Witness ==
    /\ LaunchAllReported
    /\ info.N = MaxPointings
    /\ Positions("Active") # {}
    /\ Positions("Completed") # {}
    /\ Positions("Unprocessed") = {}
    /\ popup.text = Report(0, MaxPointings)

\* C2: for every status sequence of length N, Launch All reports "<L> jobs launched;
\* <R> jobs cannot be processed." with L the number of Unprocessed entries, R the
\* number of Active or Completed entries and L + R = N; for the statuses
\* [Completed, Active, Unprocessed] the report is "1 jobs launched; 2 jobs cannot
\* be processed."
C2_LaunchReport ==
    LaunchAllReported =>
        LET L == Cardinality(Positions("Unprocessed"))
            R == Cardinality(Positions("Active") \cup Positions("Completed"))
        IN  /\ popup.text = Report(L, R)
            /\ L + R = info.N
            /\ info.N = Len(info.statuses)
            /\ (info.statuses = <<"Completed", "Active", "Unprocessed">>) =>
                   popup.text = "1 jobs launched; 2 jobs cannot be processed."

C2_Witness ==
    /\ LaunchAllReported
    /\ info.statuses = <<"Completed", "Active", "Unprocessed">>
    /\ popup.text = "1 jobs launched; 2 jobs cannot be processed."

\* C3: the status of a pointing is decided by the response to its own status query:
\* an empty list gives Unprocessed, a non-empty list gives Completed when its first
\* record has completed=true and Active when it has completed=false, whatever the
\* records after the first; every status is one of the three.
C3_Classification ==
    /\ Has(info, "statuses") =>
           \A i \in 1..Len(info.statuses) :
               info.statuses[i] \in {"Unprocessed", "Active", "Completed"}
    /\ (pc = "classify" /\ Len(info.statuses) > 0) =>
           LET status == info.statuses[Len(info.statuses)]
           IN  /\ Len(ID_data) = 0 => status = "Unprocessed"
               /\ (Len(ID_data) > 0 /\ ID_data[1].completed) => status = "Completed"
               /\ (Len(ID_data) > 0 /\ ~ID_data[1].completed) => status = "Active"

C3_Witness ==
    /\ pc = "classify"
    /\ Len(info.statuses) = 2
    /\ Len(ID_data) = 2
    /\ ~ID_data[1].completed
    /\ ID_data[2].completed
    /\ info.statuses[2] = "Active"

\* C4: three pointings whose statuses come out as [Completed, Active, Unprocessed]
\* are summarised as N=3, one completed shown as 33.33% and one active shown as
\* 33.33%.
C4_Scenario ==
    (SessionBuilt /\ info.statuses = <<"Completed", "Active", "Unprocessed">>) =>
        /\ info.N = 3
        /\ info.N_completed = 1
        /\ info.N_active = 1
        /\ info.processed_text = "1 (33.33)%"
        /\ info.active_text = "1 (33.33)%"

\* C5: in the summary of a non-empty pointing set the completed and the active
\* percentage lie in [0, 100] and completedCount + activeCount <= N, with equality
\* exactly when no pointing is Unprocessed.
C5_SummaryBounds ==
    SessionBuilt =>
        /\ info.N > 0
        /\ Hundredths(info.N_completed, info.N) \in 0..(100 * 100)
        /\ Hundredths(info.N_active, info.N) \in 0..(100 * 100)
        /\ info.N_completed + info.N_active <= info.N
        /\ (info.N_completed + info.N_active = info.N) <=> (Positions("Unprocessed") = {})

C5_Witness ==
    /\ SessionBuilt
    /\ info.N = MaxPointings
    /\ info.N_completed = 1
    /\ info.N_active = 1
    /\ Positions("Unprocessed") # {}

(***************************************************************************)
(* Properties of the criteria of generate (under SpecCriteria).  The       *)
(* entries do not change, so an attribute of the Launcher is compared with *)
(* the text of the Entry it was resolved from.                             *)
(***************************************************************************)
Unparsable(text) == float(text).raised = "ValueError"

Parsed(text) == float(text).value

Resolved(name, default) ==
    launcher[name] = IF Unparsable(entries[name]) THEN default ELSE Parsed(entries[name])

\* C6: generate resolves every numeric field on its own and never raises: a blank
\* or unparsable low MJD becomes 45000 and high MJD 63000; in box mode a blank or
\* unparsable low/high RA becomes 0/360 and low/high Dec -90/90; a parsable field
\* keeps its parsed value, whatever the other fields hold.
C6_FieldDefaults ==
    /\ exception = "none"
    /\ Has(launcher, "low_mjd") =>
           /\ Resolved("low_mjd", 45000)
           /\ Resolved("high_mjd", 63000)
    /\ Has(launcher, "low_ra") =>
           /\ Resolved("low_ra", 0)
           /\ Resolved("high_ra", 360)
           /\ Resolved("low_dec", 0 - 90)
           /\ Resolved("high_dec", 90)

C6_Witness ==
    /\ Has(launcher, "low_ra")
    /\ entries.low_mjd = <<"4", "x">> /\ launcher.low_mjd = 45000
    /\ entries.high_mjd = <<"5", "0", "0", "0", "0">> /\ launcher.high_mjd = 50000
    /\ entries.low_ra = Blank /\ launcher.low_ra = 0
    /\ entries.high_ra = <<"-", "2", "0", " ">> /\ launcher.high_ra = 0 - 20
    /\ entries.low_dec = <<"-">> /\ launcher.low_dec = 0 - 90
    /\ entries.high_dec = Blank /\ launcher.high_dec = 90

\* C7: in disk mode, an unparsable radius with a valid center RA and a valid center
\* Dec resolves to radius 1000 and the center the user entered.
C7_RadiusFallback ==
    (/\ Has(launcher, "radius")
     /\ Unparsable(entries.radius)
     /\ ~Unparsable(entries.center_ra)
     /\ ~Unparsable(entries.center_dec)) =>
        /\ launcher.radius = 1000
        /\ launcher.center_ra = Parsed(entries.center_ra)
        /\ launcher.center_dec = Parsed(entries.center_dec)

C7_Witness ==
    /\ Has(launcher, "radius")
    /\ entries.radius = <<"r">>
    /\ entries.center_ra = <<"-", "2", "0", " ">>
    /\ entries.center_dec = <<"-", "2", "0", " ">>
    /\ launcher.radius = 1000
    /\ launcher.center_ra = 0 - 20
    /\ launcher.center_dec = 0 - 20

FullSky ==
    /\ launcher.center_ra = 180
    /\ launcher.center_dec = 0
    /\ launcher.radius = 1000

\* C8 as stated: in disk mode, a blank or unparsable center RA or center Dec, or an
\* unparsable radius, resolves to center (180, 0) and radius 1000.
C8_AnyInvalidWidens ==
    (/\ Has(launcher, "radius")
     /\ \/ Unparsable(entries.center_ra)
        \/ Unparsable(entries.center_dec)
        \/ Unparsable(entries.radius)) => FullSky

\* C8: in disk mode no error is raised; a blank or unparsable center RA or center
\* Dec resolves to center (180, 0) and radius 1000, overriding a valid radius the
\* user entered; an unparsable radius alone resolves to radius 1000 and leaves the
\* center as entered.
C8_InvalidCenterWidens ==
    /\ exception = "none"
    /\ Has(launcher, "radius") =>
           /\ (Unparsable(entries.center_ra) \/ Unparsable(entries.center_dec)) => FullSky
           /\ (/\ ~Unparsable(entries.center_ra)
               /\ ~Unparsable(entries.center_dec)
               /\ Unparsable(entries.radius)) =>
                  /\ launcher.radius = 1000
                  /\ launcher.center_ra = Parsed(entries.center_ra)
                  /\ launcher.center_dec = Parsed(entries.center_dec)

C8_Witness ==
    /\ Has(launcher, "radius")
    /\ entries.center_ra = <<"-", "2", "0", " ">>
    /\ entries.center_dec = <<"-">>
    /\ entries.radius = <<"5">>
    /\ FullSky

\* C9: after any clicks on the Range and Disk checkbuttons exactly one of the two
\* is selected, and the coordinate blocks on display are those of that mode; a
\* generate resolves the fields of the selected mode and leaves the attributes of
\* the other mode as they were.
C9_OneRegionMode ==
    /\ [](/\ Selected(range_checkbutton, check) # Selected(interval_checkbutton, check)
          /\ displayed = IF Selected(range_checkbutton, check) THEN "range" ELSE "disk")
    /\ [][launcher' # launcher =>
            LET active == IF Selected(range_checkbutton, check) THEN BoxFields ELSE DiskFields
                other == IF Selected(range_checkbutton, check) THEN DiskFields ELSE BoxFields
            IN  /\ active \subseteq DOMAIN launcher'
                /\ \A name \in other :
                       /\ Has(launcher', name) = Has(launcher, name)
                       /\ Has(launcher, name) => launcher'[name] = launcher[name]]_vars

C9_Witness ==
    /\ Selected(interval_checkbutton, check)
    /\ ~Selected(range_checkbutton, check)
    /\ Has(launcher, "radius")
    /\ ~Has(launcher, "low_ra")

\* C10: the time range generate puts into the catalog query has lowMJD <= highMJD,
\* whatever the user entered in the two MJD entries.
C10_OrderedTimeRange ==
    Has(pointing_query, "start_date_time") =>
        pointing_query.start_date_time.gte <= pointing_query.start_date_time.lte

(***************************************************************************)
(* The catalog query (under SpecQuery).                                    *)
(***************************************************************************)
MJDOf(text, default) == IF Unparsable(text) THEN default ELSE Parsed(text)

QueryBuilt == Has(pointing_query, "survey")

\* C11: the catalog query generate builds holds exactly start_date_time with
\* $gte the resolved low MJD and $lte the resolved high MJD, survey with $eq
\* the chosen survey, and source_name with $eq the source exactly when the
\* source entry is not empty; nothing in it comes from the region, so a later
\* generate in the other region mode builds the same query.
C11_CatalogQuery ==
    /\ [](QueryBuilt =>
            /\ DOMAIN pointing_query =
                   {"start_date_time", "survey"}
                       \cup (IF entries.source # "" THEN {"source_name"} ELSE {})
            /\ DOMAIN pointing_query.start_date_time = {"gte", "lte"}
            /\ pointing_query.start_date_time.gte = MJDOf(entries.low_mjd, 45000)
            /\ pointing_query.start_date_time.lte = MJDOf(entries.high_mjd, 63000)
            /\ pointing_query.survey = [eq |-> launcher.chosen_survey]
            /\ entries.source # "" => pointing_query.source_name = [eq |-> entries.source])
    /\ [][QueryBuilt => pointing_query' = pointing_query]_vars

C11_Witness ==
    /\ QueryBuilt
    /\ entries.source # ""
    /\ Has(pointing_query, "source_name")
    /\ Has(launcher, "low_ra")
    /\ Has(launcher, "radius")
    /\ launcher.radius # FullSkyRadius
    /\ displayed = "disk"

(***************************************************************************)
(* The requests of generate and of the classification (under Spec).        *)
(***************************************************************************)
IsStatusQuery(request) == Has(request.json, "dataID")

StatusQueries == SelectSeq(requests, IsStatusQuery)

NoPointingsFound == popup.window = "Launcher.no_pointings_popup"

\* C12: a generate whose catalog response holds no pointing ends in the popup
\* "No pointings found!" and nothing else: its Toplevel holds the popup only, no
\* GlobalInfoWindow attribute exists, no status query was made or is under way
\* and the handler returned without raising (the popup stays when a later
\* generate fails in a request); whenever a GlobalInfoWindow has its N, its MJD
\* range or its two counts, N is positive.
C12_NoPointings ==
    /\ NoPointingsFound =>
           /\ popup.text = "No pointings found!"
           /\ window = "PopupWindow"
           /\ DOMAIN info = {}
           /\ StatusQueries = <<>>
           /\ inflight = <<>>
           /\ pc = "idle"
           /\ (\A i \in 1..Len(requests) : requests[i].ok) => exception = "none"
    /\ \A name \in {"N", "MJD_min", "MJD_max", "N_completed", "processed_text"} :
           Has(info, name) => info.N > 0
    /\ (StatusQueries # <<>> \/ inflight # <<>>) => Has(info, "N") /\ info.N > 0

C12_Witness ==
    /\ NoPointingsFound
    /\ Len(requests) = 2
    /\ requests[1].url = "data/search_data"
    /\ requests[1].ok

FailedRequests == {i \in 1..Len(requests) : ~requests[i].ok}

\* C13: when a request of generate or of the classification fails, the handler
\* does not repeat it and makes no further request, and it returns without
\* raising, in a state that is not the "No pointings found!" outcome.
C13_FailureAbsorbed ==
    FailedRequests # {} =>
        /\ FailedRequests = {Len(requests)}
        /\ inflight = <<>>
        /\ exception = "none"
        /\ ~NoPointingsFound

(***************************************************************************)
(* The launches (under Spec).                                              *)
(***************************************************************************)
\* lines 688-689 and 895-896: shlex.split("/path/to/launcher.py -d <ID>")
Command(ID) == <<"/path/to/launcher.py", "-d", ID>>

LaunchAllStep ==
    /\ SessionBuilt
    /\ popup' # popup
    /\ popup'.window = "GlobalInfoWindow.launch_result_window"

LaunchStep ==
    /\ Has(pointing, "ID")
    /\ popup' # popup \/ ~Has(pointing', "ID")
    /\ popup'.window \in {"LaunchPointingWindow.launch_result_window",
                          "LaunchPointingWindow.launch_warning_window"}

\* C14: one launch_all starts exactly one process per pointing whose status is
\* Unprocessed, with the identifier of the pointing in its command, and none for
\* an Active or Completed pointing, as many as the launched count it reports; one
\* launch starts one process for an Unprocessed pointing and none otherwise.
C14_OneProcessPerLaunch ==
    /\ [][LaunchAllStep =>
            LET eligible == Listed(info.IDs, info.statuses, {"Unprocessed"})
            IN  /\ processes' = processes \o [i \in 1..Len(eligible) |-> Command(eligible[i])]
                /\ popup'.text = Report(Len(processes') - Len(processes),
                                        Len(info.IDs) - Len(eligible))]_vars
    /\ [][LaunchStep =>
            processes' = IF pointing.status = "Unprocessed"
                         THEN Append(processes, Command(pointing.ID))
                         ELSE processes]_vars

LaunchReported == popup.window = "LaunchPointingWindow.launch_result_window"

LaunchRejected == popup.window = "LaunchPointingWindow.launch_warning_window"

\* C15: a launch from the window of one pointing reports "Job launched!" exactly
\* when the status of that pointing is Unprocessed and otherwise a warning that
\* names the status; launch_all over that one status alone counts it as launched
\* in the first case and as not processable in the second.
C15_SameEligibility ==
    [][LaunchStep =>
         LET alone == LaunchLoop(<<pointing.status>>, 1, 0, 0)
         IN  IF pointing.status = "Unprocessed"
             THEN /\ LaunchReported'
                  /\ popup'.text = "Job launched!"
                  /\ alone = [num_good_statuses |-> 1, num_bad_statuses |-> 0]
             ELSE /\ LaunchRejected'
                  /\ popup'.text = "Warning! Pointing status is " \o pointing.status
                                       \o " and cannot be processed."
                  /\ alone = [num_good_statuses |-> 0, num_bad_statuses |-> 1]]_vars

C15_Witness ==
    /\ LaunchRejected
    /\ Has(pointing, "ID")
    /\ pointing.status = "Active"
    /\ popup.text = "Warning! Pointing status is Active and cannot be processed."
    /\ \E i \in 1..Len(info.IDs) : info.statuses[i] = "Unprocessed"

QueriedID(request) == request.json.dataID.eq

\* the identifiers asked for so far, the call under way included
Asked ==
    [i \in 1..Len(StatusQueries) |-> QueriedID(StatusQueries[i])]
        \o [i \in 1..Len(inflight) |-> QueriedID(inflight[i])]

Classifying == pc \in {"classify", "blocked"}

\* the log requests is that of the generate() that built the session on display
LogOfSession == SessionBuilt /\ \A i \in 1..Len(requests) : requests[i].ok

\* C16: the classification of N pointings makes N status queries, the i-th for
\* the i-th identifier of the catalog response; a query is made only when every
\* earlier one has returned and its status is recorded, so never more than one
\* request is under way; the status a response yields is appended at the place
\* of the identifier that was asked for, and the finished list has N statuses.
C16_SequentialQueries ==
    /\ [](/\ Len(inflight) <= 1
          /\ inflight # <<>> => pc = "blocked"
          /\ Classifying =>
                 /\ Asked = SubSeq(info.IDs, 1, Len(Asked))
                 /\ Len(info.statuses) = Len(StatusQueries)
                 /\ \A i \in 1..Len(StatusQueries) : StatusQueries[i].ok
          /\ LogOfSession =>
                 /\ Len(StatusQueries) = info.N
                 /\ Asked = info.IDs
                 /\ Len(info.statuses) = info.N)
    /\ [][(Classifying /\ Classifying' /\ info'.statuses # info.statuses) =>
            /\ inflight = <<StatusRequest(info.IDs[Len(info'.statuses)])>>
            /\ inflight' = <<>>
            /\ info'.statuses = Append(info.statuses, info'.statuses[Len(info'.statuses)])
            /\ info'.IDs = info.IDs]_vars

C16_Witness ==
    /\ LogOfSession
    /\ info.N = MaxPointings
    /\ Len(StatusQueries) = MaxPointings
    /\ info.IDs[1] > info.IDs[2]
    /\ {info.statuses[i] : i \in 1..info.N} = {"Unprocessed", "Active", "Completed"}

SessionAttributes == {"IDs", "statuses", "N", "N_completed", "N_active"}

\* C17: once GlobalInfoWindow.__init__ has finished, no handler of the session
\* (launch_all, launch, select_id, get_help, save_skymap_box, save_skymap)
\* changes its IDs, its statuses, its N, its N_completed or its N_active.
C17_SessionFrame ==
    [][(SessionBuilt /\ SessionBuilt') =>
          \A name \in SessionAttributes :
              /\ Has(info, name) /\ Has(info', name)
              /\ info'[name] = info[name]]_vars

C17_Witness ==
    /\ LaunchAllReported
    /\ popup.text = Report(2, 1)
    /\ Has(pointing, "ID")
    /\ pointing.status = "Unprocessed"
    /\ info.N_completed + info.N_active = 1

(***************************************************************************)
(* The three boxes of identifiers (under Spec).                            *)
(***************************************************************************)
\* the k-th position of S in increasing order
Kth(S, k) == CHOOSE i \in S : Cardinality({j \in S : j < i}) = k - 1

\* list holds the identifiers at the positions S, in the order of info.IDs
ListsPositions(list, S) ==
    /\ Len(list) = Cardinality(S)
    /\ \A k \in 1..Len(list) : list[k] = info.IDs[Kth(S, k)]

Elements(list) == {list[k] : k \in 1..Len(list)}

\* C18: the box "All jobs" lists every identifier in the order of the catalog
\* response, the box "Unprocessed jobs" exactly the identifiers whose status is
\* Unprocessed and the box "Active jobs" exactly those whose status is Active,
\* both in that order; the last two share no identifier, and the identifier of
\* a Completed pointing is in the box "All jobs" only.
C18_ThreeLists ==
    SessionBuilt =>
        /\ info.unprocessed_info_box = info.IDs
        /\ ListsPositions(info.current_jobs_info_box, Positions("Unprocessed"))
        /\ ListsPositions(info.recent_jobs_info_box, Positions("Active"))
        /\ Elements(info.current_jobs_info_box) \cap Elements(info.recent_jobs_info_box) = {}
        /\ \A i \in Positions("Completed") :
               /\ info.IDs[i] \in Elements(info.unprocessed_info_box)
               /\ info.IDs[i] \notin Elements(info.current_jobs_info_box)
               /\ info.IDs[i] \notin Elements(info.recent_jobs_info_box)

C18_Witness ==
    /\ SessionBuilt
    /\ info.N = MaxPointings
    /\ info.IDs[1] > info.IDs[2]
    /\ Len(info.current_jobs_info_box) = 2
    /\ info.current_jobs_info_box[1] > info.current_jobs_info_box[2]
    /\ Positions("Completed") # {}

(***************************************************************************)
(* One session after the other (under SpecSessions).                       *)
(***************************************************************************)
FromResponse(response) ==
    CASE Len(response) = 0 -> "Unprocessed"
      [] Len(response) > 0 /\ response[1].completed -> "Completed"
      [] Len(response) > 0 /\ ~response[1].completed -> "Active"

\* C19: every generate classifies anew: the statuses of the new session start
\* empty whatever session there was before, and each of them is what the
\* response to the query of this pass says, so a pointing whose status changed
\* at the status service since the earlier session shows its new status.
C19_FreshStatuses ==
    /\ []((pc = "classify" /\ StatusQueries = <<>>) => info.statuses = <<>>)
    /\ [][(Classifying /\ Classifying' /\ info'.statuses # info.statuses) =>
            info'.statuses = Append(info.statuses, FromResponse(ID_data'))]_vars

C19_Witness ==
    /\ SessionBuilt
    /\ Has(earlier, "IDs")
    /\ earlier.IDs = info.IDs
    /\ Len(info.IDs) = 2
    /\ \A i \in 1..Len(info.IDs) : earlier.statuses[i] # info.statuses[i]
    /\ earlier.statuses[1] = "Unprocessed"
    /\ info.statuses[1] = "Completed"

LaunchAllReports == {i \in 1..Len(reported) : reported[i].by = "launch_all"}

LaunchReports ==
    {i \in 1..Len(reported) : reported[i].by = "launch" /\ reported[i].text = "Job launched!"}

\* C20: launching changes no status of the session: a pointing reported as
\* launched, by launch_all or from its own window, is still Unprocessed in the
\* session, so every launch_all of one session reports the same two counts,
\* those of the statuses as classified, and a pointing launched once can be
\* launched again.
C20_SnapshotEligibility ==
    SessionBuilt =>
        /\ \A i \in LaunchAllReports :
               reported[i].text = Report(Cardinality(Positions("Unprocessed")),
                                         info.N - Cardinality(Positions("Unprocessed")))
        /\ \A i \in LaunchReports :
               info.statuses[Index(info.IDs, reported[i].ID)] = "Unprocessed"
        /\ LaunchAllReports # {} =>
               info.current_jobs_info_box = Listed(info.IDs, info.statuses, {"Unprocessed"})

C20_Witness ==
    /\ SessionBuilt
    /\ Len(reported) = MaxReports
    /\ reported[1].by = "launch_all"
    /\ reported[1].text = Report(1, 1)
    /\ reported[2] = reported[1]
    /\ reported[MaxReports].by = "launch"
    /\ reported[MaxReports].text = "Job launched!"

(***************************************************************************)
(* The survey request of generate (under Spec).                            *)
(***************************************************************************)
AllReturned == \A i \in 1..Len(requests) : requests[i].ok

EmptySurveyData == Has(info, "survey_data") /\ Len(info.survey_data) = 0

\* C21: generate tests the catalog response for emptiness and the survey
\* response not at all.  Whenever its catalog request has returned, with
\* pointings or without, its next request is the survey query for the chosen
\* survey.  A GlobalInfoWindow given pointings and an empty survey response
\* stops with IndexError: it has its pointings (N > 0) but no frequency, no
\* status list and no summary, no status query was made or is under way, and
\* its Toplevel is left empty.
C21_SurveyUnguarded ==
    /\ (requests # <<>> /\ requests[1].ok) =>
           /\ requests[1].url = "data/search_data"
           /\ Len(requests) >= 2
           /\ requests[2].url = "survey/search_data"
           /\ requests[2].json = [survey |-> [eq |-> launcher.chosen_survey]]
    /\ (NoPointingsFound /\ AllReturned) => Len(requests) = 2
    /\ EmptySurveyData =>
           /\ info.N > 0
           /\ DOMAIN info \cap {"freq_min", "freq_max", "statuses", "N_completed",
                                "N_active", "unprocessed_info_box"} = {}
           /\ StatusQueries = <<>>
           /\ inflight = <<>>
           /\ window = "empty"
           /\ popup = NoPopup
           /\ pc = "idle"
           /\ AllReturned => exception = "IndexError"

C21_Witness ==
    /\ EmptySurveyData
    /\ exception = "IndexError"
    /\ info.N = MaxPointings
    /\ Len(requests) = 2
    /\ requests[2].ok

====
